---- MODULE Spec2Model ----
(***************************************************************************)
(* Maze generator (src/Games/Maze/maze_gen.py) and maze game               *)
(* (src/Games/Maze/maze.py) as one state machine: a MazeGenerator is       *)
(* constructed, generate_maze carves the grid one loop iteration at a      *)
(* time, write_to_file serialises it, MazeGame loads the text and the      *)
(* player moves, by direct calls or inside play.  Beside it stand the      *)
(* console window (src/Utilities/console_window.py), whose worker thread   *)
(* adds content while the event loop scrolls, and the Caesar cipher        *)
(* (src/Security/caesar_cipher.py).                                        *)
(***************************************************************************)
EXTENDS Integers, Sequences, FiniteSets, TLC

\* ------------------------------------------------------------------ bounds
\* Largest normalised side for which generate_maze is explored.
MaxSize == 8
\* Requested sizes are drawn from 0 .. MaxReq.
MaxReq == 102
\* Hand-written maze texts have at most MaxLines rows of at most MaxCols characters.
MaxLines == 2
MaxCols == 3

\* add_content calls per run, largest integer buffer_size, most terminal rows
MaxAdds == 5
MaxBuffer == 3
MaxHeight == 5

\* longest text handed to the cipher, largest key either way
MaxText == 2
MaxKey == 27

\* ------------------------------------------------------- program constants
RangeLo == 4
RangeHi == 101
MinSide == 5
MaxSide == 99

VARIABLES
    pc,          \* position of the program
    properties,  \* MazeGenerator.properties (MazeProperties)
    maze,        \* MazeGenerator.maze: maze[x][y], x the row list index
    stack,       \* generate_maze local
    visited,     \* generate_maze local
    carves,      \* number of loop iterations that took the `if neighbours` branch
    file,        \* the maze file: a sequence of lines, each a sequence of characters
    layout,      \* Maze.layout: layout[y + 1][x + 1] is Python's layout[y][x]
    width,       \* Maze.width
    height,      \* Maze.height
    start_x,     \* Maze.start_x
    start_y,     \* Maze.start_y
    player_x,    \* Maze.player_x
    player_y,    \* Maze.player_y
    result,      \* what the last move_player call returned or raised
    runB,        \* a second generate_maze run, fed the same size and the same picks
    loop,        \* position of MazeGame.play
    content,          \* ConsoleWindow.content
    scroll_position,  \* ConsoleWindow.scroll_position
    buffer_size,      \* ConsoleWindow.buffer_size: <<>> is None, <<n>> the integer n
    win_height,       \* ConsoleWindow.height
    wpc,              \* position of the worker thread inside add_content
    mpc,              \* position of the main thread inside run's scroll handlers
    message,          \* add_content parameter
    added,            \* every message handed to add_content so far, in call order
    run_state,        \* whether ConsoleWindow.run is still in its event loop
    text,        \* the text handed to CaesarCipher.encrypt
    key,         \* the key handed to encrypt and decrypt
    encrypted,   \* what encrypt returned
    decrypted,   \* what decrypt returned
    cipher_pc    \* position of the encrypt/decrypt round trip

genVars == <<properties, maze, stack, visited, carves>>
mazeVars == <<layout, width, height, start_x, start_y>>
gameVars == <<mazeVars, player_x, player_y, result>>
playVars == <<loop>>
consoleVars == <<content, scroll_position, buffer_size, win_height, wpc, mpc, message, added, run_state>>
cipherVars == <<text, key, encrypted, decrypted, cipher_pc>>
otherVars == <<consoleVars, cipherVars>>
mazeProgramVars == <<pc, genVars, file, gameVars, runB, playVars>>
vars == <<mazeProgramVars, otherVars>>

Max(a, b) == IF a >= b THEN a ELSE b
Min(a, b) == IF a <= b THEN a ELSE b
Range(s) == {s[i] : i \in DOMAIN s}

\* ---------------------------------------------------------- MazeProperties
DefaultSymbols == [wall_char |-> "#", path_char |-> " ", start_char |-> "S", end_char |-> "E"]
CustomSymbols == [wall_char |-> "X", path_char |-> ".", start_char |-> "P", end_char |-> "F"]
\* The symbol sets a generator is constructed with: four distinct characters.
SymbolSets == {DefaultSymbols, CustomSymbols}

MazeProperties(size, sym) ==
    [size |-> size, wall_char |-> sym.wall_char, path_char |-> sym.path_char,
     start_char |-> sym.start_char, end_char |-> sym.end_char]

\* --------------------------------------------------------- MazeGenerator
\* `size not in range(4, 101)`
SizeAccepted(size) == size \in RangeLo..(RangeHi - 1)

\* Faulty variant: an even size goes down to the odd value below it.
BitOr1Down(size) == IF size % 2 = 0 THEN size - 1 ELSE size

\* Faulty variant: the size is not made odd.
BitOr1Dropped(size) == size

\* size | 1 on a non-negative int
BitOr1(size) == IF size % 2 = 0 THEN size + 1 ELSE size

\* max(5, min(size | 1, 99))
NormalizedSize(size) == Max(MinSide, Min(BitOr1(size), MaxSide))

directions == << <<-2, 0>>, <<0, 2>>, <<2, 0>>, <<0, -2>> >>

\* Faulty variant: neither the visited set nor the wall test is consulted.
NeighbourOkUnchecked(m, p, x, y, vis, d) ==
    LET nx == x + d[1]
        ny == y + d[2]
    IN  /\ 0 <= nx /\ nx < p.size
        /\ 0 <= ny /\ ny < p.size

\* The condition of _get_neighbours on one direction d from (x, y).
NeighbourOk(m, p, x, y, vis, d) ==
    LET nx == x + d[1]
        ny == y + d[2]
    IN  /\ 0 <= nx /\ nx < p.size
        /\ 0 <= ny /\ ny < p.size
        /\ <<nx, ny>> \notin vis
        /\ m[nx][ny] = p.wall_char

\* Faulty variant: the last two directions are never tried.
get_neighbours_half(m, p, x, y, vis) ==
    LET ok(d) == NeighbourOk(m, p, x, y, vis, d)
        ds == SelectSeq(SubSeq(directions, 1, 2), ok)
    IN  [i \in 1..Len(ds) |-> <<x + ds[i][1], y + ds[i][2]>>]

\* _get_neighbours: the unvisited neighbours in the order of `directions`.
get_neighbours(m, p, x, y, vis) ==
    LET ok(d) == NeighbourOk(m, p, x, y, vis, d)
        ds == SelectSeq(directions, ok)
    IN  [i \in 1..Len(ds) |-> <<x + ds[i][1], y + ds[i][2]>>]

\* Faulty variant: the choice does not depend on the draw.
random_choice_unseeded(neighbours, i, c) == c \in Range(neighbours)

\* random.choice(neighbours) with rng draw i: c is the element chosen.
random_choice(neighbours, i, c) == c = neighbours[i]

SetCell(m, x, y, ch) == [m EXCEPT ![x][y] = ch]

\* Faulty variant: the start is on the left border, row 1.
StartCellLeft == <<1, 0>>

\* start = (0, 1)
StartCell == <<0, 1>>

\* The first carve node: (start[0]+1, start[1]).
FirstNode == <<StartCell[1] + 1, StartCell[2]>>

\* Lines 80-87: the all-wall grid with the start cell marked.
InitialGrid(p) ==
    LET n == p.size
        walls == [x \in 0..(n - 1) |-> [y \in 0..(n - 1) |-> p.wall_char]]
    IN  SetCell(walls, StartCell[1], StartCell[2], p.start_char)

\* Line 94: the cell on top of the stack becomes a path cell.
MarkCurrent(m, p, st) ==
    LET cur == st[Len(st)] IN SetCell(m, cur[1], cur[2], p.path_char)

\* Faulty variant: the wall between the two nodes is left standing.
CarveToNoWall(m, p, st, vis, next_cell) ==
    [maze    |-> MarkCurrent(m, p, st),
     stack   |-> Append(st, next_cell),
     visited |-> vis \cup {next_cell}]

\* Lines 99-102: visit next_cell, carve the wall between, push.
CarveTo(m, p, st, vis, next_cell) ==
    LET cur == st[Len(st)]
        wall_x == (cur[1] + next_cell[1]) \div 2
        wall_y == (cur[2] + next_cell[2]) \div 2
    IN  [maze    |-> SetCell(MarkCurrent(m, p, st), wall_x, wall_y, p.path_char),
         stack   |-> Append(st, next_cell),
         visited |-> vis \cup {next_cell}]

\* Faulty variant: the scan runs from column 1 rightward.
ExitColumnLeftmost(m, p) ==
    LET cols == {x \in 1..(p.size - 2) : m[p.size - 2][x] = p.path_char}
    IN  IF cols = {} THEN -1 ELSE CHOOSE x \in cols : \A z \in cols : x <= z

\* Lines 106-109: the exit below the first path cell of row size-2, scanning
\* columns size-2 down to 1; the grid is unchanged when the scan finds none.
ExitColumn(m, p) ==
    LET cols == {x \in 1..(p.size - 2) : m[p.size - 2][x] = p.path_char}
    IN  IF cols = {} THEN -1 ELSE CHOOSE x \in cols : \A z \in cols : z <= x

PlaceExitOn(m, p) ==
    LET x == ExitColumn(m, p)
    IN  IF x = -1 THEN m ELSE SetCell(m, p.size - 1, x, p.end_char)

\* ------------------------------------------------------------- text helpers
\* str.strip() and str.split() take out whitespace; a line is kept without its
\* newline, which is whitespace at its very end.
Whitespace == {" "}

RECURSIVE lstrip(_)
lstrip(s) == IF s # <<>> /\ s[1] \in Whitespace THEN lstrip(Tail(s)) ELSE s

RECURSIVE rstrip(_)
rstrip(s) ==
    IF s # <<>> /\ s[Len(s)] \in Whitespace THEN rstrip(SubSeq(s, 1, Len(s) - 1)) ELSE s

strip(s) == rstrip(lstrip(s))

\* str.split(): the maximal runs of non-whitespace characters.
RECURSIVE split(_)
split(s) ==
    LET t == lstrip(s)
        n == IF \E k \in 1..Len(t) : t[k] \in Whitespace
             THEN (CHOOSE k \in 1..Len(t) :
                      t[k] \in Whitespace /\ \A j \in 1..(k - 1) : t[j] \notin Whitespace) - 1
             ELSE Len(t)
    IN  IF t = <<>> THEN <<>>
        ELSE <<SubSeq(t, 1, n)>> \o split(SubSeq(t, n + 1, Len(t)))

Digits == <<"0", "1", "2", "3", "4", "5", "6", "7", "8", "9">>

DigitVal(c) == (CHOOSE n \in 1..10 : Digits[n] = c) - 1

\* int(token) succeeds on a non-empty run of decimal digits.
IsInt(tok) == tok # <<>> /\ \A k \in 1..Len(tok) : tok[k] \in Range(Digits)

RECURSIVE int(_)
int(tok) ==
    IF tok = <<>> THEN 0
    ELSE 10 * int(SubSeq(tok, 1, Len(tok) - 1)) + DigitVal(tok[Len(tok)])

\* line.index(ch) for a ch that occurs in line.
index(line, ch) == (CHOOSE k \in 1..Len(line) :
                       line[k] = ch /\ \A j \in 1..(k - 1) : line[j] # ch) - 1

\* ------------------------------------------------------------ write_to_file
\* One line per row of self.maze: ''.join(row).
Serialize(m, n) == [x \in 1..n |-> [y \in 1..n |-> m[x - 1][y - 1]]]

\* --------------------------------------------------------------- MazeGame
\* Maze(): the dataclass defaults.
NewMaze ==
    /\ layout = <<>>
    /\ width = 0
    /\ height = 0
    /\ start_x = 0
    /\ start_y = 0
    /\ player_x = 0
    /\ player_y = 0
    /\ result = "None"

\* `map(int, first_line.split())` unpacks into exactly two ints.
HeaderParses(first_line) ==
    LET toks == split(first_line)
    IN  Len(toks) = 2 /\ IsInt(toks[1]) /\ IsInt(toks[2])

\* Lines 77-90 on a non-empty file f.
LoadedMaze(f) ==
    LET first_line == strip(f[1])
        header == HeaderParses(first_line)
        layout_lines == IF header THEN Tail(f) ELSE <<first_line>> \o Tail(f)
        h == IF header THEN int(split(first_line)[1]) ELSE Len(layout_lines)
        w == IF header THEN int(split(first_line)[2]) ELSE Len(rstrip(layout_lines[1]))
        withS == {y \in 1..Len(layout_lines) : "S" \in Range(layout_lines[y])}
        last == CHOOSE y \in withS : \A z \in withS : z <= y
        sx == IF withS = {} THEN 0 ELSE index(layout_lines[last], "S")
        sy == IF withS = {} THEN 0 ELSE last - 1
    IN  [layout  |-> [y \in 1..Len(layout_lines) |-> strip(layout_lines[y])],
         width   |-> w,
         height  |-> h,
         start_x |-> sx,
         start_y |-> sy]

\* Whether Python's layout[y][x] exists (x, y >= 0).
CellExists(lay, x, y) ==
    /\ y + 1 \in 1..Len(lay)
    /\ x + 1 \in 1..Len(lay[y + 1])

Cell(lay, x, y) == lay[y + 1][x + 1]

upper(c) ==
    CASE c = "w" -> "W"
      [] c = "a" -> "A"
      [] c = "s" -> "S"
      [] c = "d" -> "D"
      [] c = "q" -> "Q"
      [] c = "m" -> "M"
      [] OTHER -> c

MsgWall == "Invalid move: you can't move through walls."
MsgBounds == "Invalid move: you can't move out of bounds."

\* dx, dy of lines 114-122; <<0, 0>> stands for the bare `return`.
Delta(direction) ==
    CASE upper(direction) = "W" -> <<0, -1>>
      [] upper(direction) = "S" -> <<0, 1>>
      [] upper(direction) = "A" -> <<-1, 0>>
      [] upper(direction) = "D" -> <<1, 0>>
      [] OTHER -> <<0, 0>>

InBounds(x, y, w, h) == 0 <= x /\ x < w /\ 0 <= y /\ y < h

\* `layout[new_y][new_x] != '#'`
NotWall(ch) == ch # "#"

\* check_win_condition on an existing cell.
IsExit(ch) == ch = "E"

\* check_win_condition raises IndexError when the player's cell is not in layout.
check_win_raises == ~CellExists(layout, player_x, player_y)

check_win_condition ==
    CellExists(layout, player_x, player_y) /\ IsExit(Cell(layout, player_x, player_y))

\* What the player may type.
Inputs == {"W", "A", "S", "D", "w", "a", "s", "d", "Q", "M", "x"}

\* write_to_file after generate_maze.
WriteToFile ==
    /\ pc = "generated"
    /\ file' = Serialize(maze, properties.size)
    /\ pc' = "written"
    /\ UNCHANGED <<genVars, gameVars, runB, playVars, otherVars>>

\* MazeGame(filename): Maze() and load_maze_from_file.
LoadMaze ==
    /\ pc = "written"
    /\ IF file = <<>>
       THEN /\ pc' = "value_error"
            /\ UNCHANGED gameVars
       ELSE LET m == LoadedMaze(file)
            IN  /\ layout' = m.layout
                /\ width' = m.width
                /\ height' = m.height
                /\ start_x' = m.start_x
                /\ start_y' = m.start_y
                /\ player_x' = m.start_x
                /\ player_y' = m.start_y
                /\ result' = "None"
                /\ pc' = "playing"
    /\ UNCHANGED <<genVars, file, runB, playVars, otherVars>>

\* Faulty variant: the position is assigned before the wall test.
move_player_eager(direction) ==
    /\ pc = "playing"
    /\ LET d == Delta(direction)
           new_x == player_x + d[1]
           new_y == player_y + d[2]
       IN  IF d = <<0, 0>>
           THEN /\ result' = "None"
                /\ UNCHANGED <<pc, player_x, player_y>>
           ELSE IF InBounds(new_x, new_y, width, height)
           THEN IF ~CellExists(layout, new_x, new_y)
                THEN /\ result' = "IndexError"
                     /\ pc' = "index_error"
                     /\ UNCHANGED <<player_x, player_y>>
                ELSE /\ player_x' = new_x
                     /\ player_y' = new_y
                     /\ result' = IF NotWall(Cell(layout, new_x, new_y)) THEN "None" ELSE MsgWall
                     /\ UNCHANGED pc
           ELSE /\ result' = MsgBounds
                /\ UNCHANGED <<pc, player_x, player_y>>
    /\ UNCHANGED <<genVars, file, mazeVars, runB, otherVars>>

\* move_player(direction)
move_player(direction) ==
    /\ pc = "playing"
    /\ LET d == Delta(direction)
           new_x == player_x + d[1]
           new_y == player_y + d[2]
       IN  IF d = <<0, 0>>
           THEN /\ result' = "None"
                /\ UNCHANGED <<pc, player_x, player_y>>
           ELSE IF InBounds(new_x, new_y, width, height)
           THEN IF ~CellExists(layout, new_x, new_y)
                THEN /\ result' = "IndexError"
                     /\ pc' = "index_error"
                     /\ UNCHANGED <<player_x, player_y>>
                ELSE IF NotWall(Cell(layout, new_x, new_y))
                THEN /\ player_x' = new_x
                     /\ player_y' = new_y
                     /\ result' = "None"
                     /\ UNCHANGED pc
                ELSE /\ result' = MsgWall
                     /\ UNCHANGED <<pc, player_x, player_y>>
           ELSE /\ result' = MsgBounds
                /\ UNCHANGED <<pc, player_x, player_y>>
    /\ UNCHANGED <<genVars, file, mazeVars, runB, otherVars>>

\* The posts of one pushing loop iteration under rng draw i: the neighbour
\* random.choice returns is visited, carved to and pushed.
Pushes(m, p, st, vis, i) ==
    LET cur == st[Len(st)]
        neighbours == get_neighbours(MarkCurrent(m, p, st), p, cur[1], cur[2], vis)
    IN  {CarveTo(m, p, st, vis, next_cell) :
            next_cell \in {c \in Range(neighbours) :
                              i \in 1..Len(neighbours) /\ random_choice(neighbours, i, c)}}

\* Whether the loop iteration on top of st finds no neighbour.
NoNeighbours(m, p, st, vis) ==
    LET cur == st[Len(st)]
    IN  get_neighbours(MarkCurrent(m, p, st), p, cur[1], cur[2], vis) = <<>>

\* ---------------------------------------------------------------- play
\* play has not been called.
NoPlay == loop = "none"

\* ------------------------------------------------------- console window
\* buffer_size None.
BufNone == <<>>

\* status_row = height - 1, content_start_row = 1, content_end_row = status_row - 1
content_start_row == 1
content_end_row == (win_height - 1) - 1

\* ConsoleWindow.displayable_content_lines
displayable_content_lines == content_end_row - content_start_row + 1

\* ConsoleWindow.__init__(buffer_size) on a terminal of h rows; auto stands for
\* buffer_size == 'auto', which sizes the buffer to the content area.
ConsoleWindowInit(auto, size, h) ==
    /\ content = <<>>
    /\ scroll_position = 0
    /\ win_height = h
    /\ buffer_size = IF auto THEN <<(h - 1) - 1 - 1 + 1>> ELSE size
    /\ wpc = "idle"
    /\ mpc = "getch"
    /\ message = ""
    /\ added = <<>>
    /\ run_state = "running"

\* -------------------------------------------------------- caesar cipher
\* self.chars = list(string.ascii_uppercase)
chars == <<"A", "B", "C", "D", "E", "F", "G", "H", "I", "J", "K", "L", "M",
           "N", "O", "P", "Q", "R", "S", "T", "U", "V", "W", "X", "Y", "Z">>

\* string.ascii_lowercase, for str.upper and str.lower
ascii_lowercase == <<"a", "b", "c", "d", "e", "f", "g", "h", "i", "j", "k", "l", "m",
                     "n", "o", "p", "q", "r", "s", "t", "u", "v", "w", "x", "y", "z">>

\* Two characters outside ASCII whose str.upper() is an ASCII letter: U+0131
\* (dotless i, upper "I") and U+017F (long s, upper "S").
DotlessI == "U+0131"
LongS == "U+017F"

\* str.upper() of one character
str_upper(c) ==
    IF c \in Range(ascii_lowercase) THEN chars[index(ascii_lowercase, c) + 1]
    ELSE IF c = DotlessI THEN "I"
    ELSE IF c = LongS THEN "S"
    ELSE c

\* str.lower() of one character
str_lower(c) ==
    IF c \in Range(chars) THEN ascii_lowercase[index(chars, c) + 1] ELSE c

\* str.isupper() of one character
isupper(c) == c \in Range(chars)

\* CaesarCipher.__rotate
rotate(char, k, forward) ==
    LET idx == IF forward THEN index(chars, str_upper(char)) + k
               ELSE index(chars, str_upper(char)) - k
    IN  chars[(idx % Len(chars)) + 1]

\* CaesarCipher.__perform_caesar
perform_caesar(t, k, enc) ==
    [n \in 1..Len(t) |->
        IF str_upper(t[n]) \in Range(chars)
        THEN IF isupper(t[n]) THEN rotate(t[n], k, enc)
             ELSE str_lower(rotate(t[n], k, enc))
        ELSE t[n]]

\* CaesarCipher.encrypt
encrypt(t, k) == perform_caesar(t, k, TRUE)

\* CaesarCipher.decrypt
decrypt(t, k) == perform_caesar(t, k, FALSE)

\* No text has been handed to the cipher.
NoCipher ==
    /\ text = <<>>
    /\ key = 0
    /\ encrypted = <<>>
    /\ decrypted = <<>>
    /\ cipher_pc = "none"

\* The maze program is all there is: no console window runs, no text is ciphered.
OthersIdle ==
    /\ ConsoleWindowInit(FALSE, BufNone, 2)
    /\ NoCipher

NoRun == [properties |-> [size |-> 0], maze |-> <<>>, stack |-> <<>>, visited |-> {}]

Init ==
    /\ pc = "start"
    /\ properties = [size |-> 0]
    /\ maze = <<>>
    /\ stack = <<>>
    /\ visited = {}
    /\ carves = 0
    /\ file = <<>>
    /\ NewMaze
    /\ runB = NoRun
    /\ NoPlay
    /\ OthersIdle

\* MazeGenerator.__init__ on an accepted size.
Construct ==
    /\ pc = "start"
    /\ \E size \in 0..MaxReq, sym \in SymbolSets :
          /\ SizeAccepted(size)
          /\ properties' = MazeProperties(size, sym)
    /\ pc' = "constructed"
    /\ UNCHANGED <<maze, stack, visited, carves, file, gameVars, runB, playVars, otherVars>>

\* MazeGenerator.__init__ raising ValueError.
ConstructRejected ==
    /\ pc = "start"
    /\ \E size \in 0..MaxReq, sym \in SymbolSets :
          /\ ~SizeAccepted(size)
          /\ properties' = MazeProperties(size, sym)
    /\ pc' = "value_error"
    /\ UNCHANGED <<maze, stack, visited, carves, file, gameVars, runB, playVars, otherVars>>

\* generate_maze up to the loop (lines 79-89).
GenerateBegin ==
    /\ pc = "constructed"
    /\ NormalizedSize(properties.size) <= MaxSize
    /\ LET p == [properties EXCEPT !.size = NormalizedSize(properties.size)]
       IN  /\ properties' = p
           /\ maze' = InitialGrid(p)
           /\ stack' = <<FirstNode>>
           /\ visited' = {FirstNode}
    /\ carves' = 0
    /\ pc' = "carving"
    /\ UNCHANGED <<file, gameVars, runB, playVars, otherVars>>

\* One iteration of `while stack:` that pushes the neighbour drawn by i.
LoopPush(i) ==
    /\ pc = "carving"
    /\ stack # <<>>
    /\ \E r \in Pushes(maze, properties, stack, visited, i) :
          /\ maze' = r.maze
          /\ stack' = r.stack
          /\ visited' = r.visited
    /\ carves' = carves + 1
    /\ UNCHANGED <<pc, properties, file, gameVars, runB, playVars, otherVars>>

\* One iteration of `while stack:` that backtracks.
LoopPop ==
    /\ pc = "carving"
    /\ stack # <<>>
    /\ NoNeighbours(maze, properties, stack, visited)
    /\ maze' = MarkCurrent(maze, properties, stack)
    /\ stack' = SubSeq(stack, 1, Len(stack) - 1)
    /\ UNCHANGED <<pc, properties, visited, carves, file, gameVars, runB, playVars, otherVars>>

\* The loop exits and the exit is placed (lines 106-109).
PlaceExit ==
    /\ pc = "carving"
    /\ stack = <<>>
    /\ maze' = PlaceExitOn(maze, properties)
    /\ pc' = "generated"
    /\ UNCHANGED <<properties, stack, visited, carves, file, gameVars, runB, playVars, otherVars>>

\* generate_maze, line 79 alone: the size is normalised and stored.
NormalizeSize ==
    /\ pc = "constructed"
    /\ properties' = [properties EXCEPT !.size = NormalizedSize(properties.size)]
    /\ pc' = "normalized"
    /\ UNCHANGED <<maze, stack, visited, carves, file, gameVars, runB, playVars, otherVars>>

\* move_player called on the game while play is not running.
MoveCall(direction) ==
    /\ loop = "none"
    /\ move_player(direction)
    /\ UNCHANGED playVars

Next ==
    \/ Construct
    \/ ConstructRejected
    \/ GenerateBegin
    \/ \E i \in 1..4 : LoopPush(i)
    \/ LoopPop
    \/ PlaceExit
    \/ WriteToFile
    \/ LoadMaze
    \/ \E direction \in Inputs : MoveCall(direction)

Spec == Init /\ [][Next]_vars

\* Construction and size normalisation alone, for every requested size.
NextSize ==
    \/ Construct
    \/ ConstructRejected
    \/ NormalizeSize

SpecSize == Init /\ [][NextSize]_vars

\* The generator alone; the loop of generate_maze keeps running once entered.
LoopIteration == (\E i \in 1..4 : LoopPush(i)) \/ LoopPop

NextGen ==
    \/ Construct
    \/ ConstructRejected
    \/ GenerateBegin
    \/ \E i \in 1..4 : LoopPush(i)
    \/ LoopPop
    \/ PlaceExit

SpecLive == Init /\ [][NextGen]_vars /\ WF_vars(LoopIteration) /\ WF_vars(PlaceExit)

\* Two generators constructed with the same properties run generate_maze in
\* lock step, each loop iteration of both drawing the same index i.
PairConstruct ==
    /\ pc = "start"
    /\ \E size \in 0..MaxReq, sym \in SymbolSets :
          /\ SizeAccepted(size)
          /\ properties' = MazeProperties(size, sym)
          /\ runB' = [runB EXCEPT !.properties = MazeProperties(size, sym)]
    /\ pc' = "constructed"
    /\ UNCHANGED <<maze, stack, visited, carves, file, gameVars, playVars, otherVars>>

PairBegin ==
    /\ pc = "constructed"
    /\ NormalizedSize(properties.size) <= MaxSize
    /\ NormalizedSize(runB.properties.size) <= MaxSize
    /\ LET p == [properties EXCEPT !.size = NormalizedSize(properties.size)]
           pB == [runB.properties EXCEPT !.size = NormalizedSize(runB.properties.size)]
       IN  /\ properties' = p
           /\ maze' = InitialGrid(p)
           /\ stack' = <<FirstNode>>
           /\ visited' = {FirstNode}
           /\ runB' = [properties |-> pB, maze |-> InitialGrid(pB),
                       stack |-> <<FirstNode>>, visited |-> {FirstNode}]
    /\ carves' = 0
    /\ pc' = "carving"
    /\ UNCHANGED <<file, gameVars, playVars, otherVars>>

PairPush(i) ==
    /\ pc = "carving"
    /\ stack # <<>>
    /\ runB.stack # <<>>
    /\ \E r \in Pushes(maze, properties, stack, visited, i) :
          /\ maze' = r.maze
          /\ stack' = r.stack
          /\ visited' = r.visited
    /\ \E r \in Pushes(runB.maze, runB.properties, runB.stack, runB.visited, i) :
          runB' = [properties |-> runB.properties, maze |-> r.maze,
                   stack |-> r.stack, visited |-> r.visited]
    /\ carves' = carves + 1
    /\ UNCHANGED <<pc, properties, file, gameVars, playVars, otherVars>>

PairPop ==
    /\ pc = "carving"
    /\ stack # <<>>
    /\ runB.stack # <<>>
    /\ NoNeighbours(maze, properties, stack, visited)
    /\ NoNeighbours(runB.maze, runB.properties, runB.stack, runB.visited)
    /\ maze' = MarkCurrent(maze, properties, stack)
    /\ stack' = SubSeq(stack, 1, Len(stack) - 1)
    /\ runB' = [runB EXCEPT !.maze = MarkCurrent(runB.maze, runB.properties, runB.stack),
                            !.stack = SubSeq(runB.stack, 1, Len(runB.stack) - 1)]
    /\ UNCHANGED <<pc, properties, visited, carves, file, gameVars, playVars, otherVars>>

PairExit ==
    /\ pc = "carving"
    /\ stack = <<>>
    /\ runB.stack = <<>>
    /\ maze' = PlaceExitOn(maze, properties)
    /\ runB' = [runB EXCEPT !.maze = PlaceExitOn(runB.maze, runB.properties)]
    /\ pc' = "generated"
    /\ UNCHANGED <<properties, stack, visited, carves, file, gameVars, playVars, otherVars>>

NextPair ==
    \/ PairConstruct
    \/ PairBegin
    \/ \E i \in 1..4 : PairPush(i)
    \/ PairPop
    \/ PairExit

SpecPair == Init /\ [][NextPair]_vars

\* A hand-written maze file: an optional "<height> <width>" header line and up
\* to MaxLines rows of up to MaxCols characters each.
TextChars == {"#", " ", "S", "E"}

Rows == UNION {[1..n -> TextChars] : n \in 0..MaxCols}

Bodies == UNION {[1..k -> Rows] : k \in 0..MaxLines}

Headers == {<<Digits[h + 1], " ", Digits[w + 1]>> : h \in 0..MaxLines, w \in 0..MaxCols}

Texts == Bodies \cup {<<hd>> \o b : hd \in Headers, b \in Bodies}

\* A maze file somebody else wrote is on disk; no generator has run.
InitText ==
    /\ pc = "written"
    /\ properties = [size |-> 0]
    /\ maze = <<>>
    /\ stack = <<>>
    /\ visited = {}
    /\ carves = 0
    /\ file \in Texts
    /\ NewMaze
    /\ runB = NoRun
    /\ NoPlay
    /\ OthersIdle

NextText ==
    \/ LoadMaze
    \/ \E direction \in Inputs : MoveCall(direction)

SpecText == InitText /\ [][NextText]_vars

\* ------------------------------------------------------------ play loop
\* move.upper() in ('W', 'A', 'S', 'D')
MoveKeys == {"W", "A", "S", "D"}

\* What play does after an iteration's input is handled: a raise of the win
\* test ends play, a win breaks the loop, anything else re-enters it.
AfterIteration(raised, won) ==
    IF raised THEN "crashed" ELSE IF won THEN "won" ELSE "running"

\* play up to its first `while not self.check_win_condition()` test.
PlayBegin ==
    /\ pc = "playing"
    /\ loop = "none"
    /\ loop' = IF check_win_raises THEN "crashed"
               ELSE IF check_win_condition THEN "ended" ELSE "running"
    /\ UNCHANGED <<pc, genVars, file, gameVars, runB, otherVars>>

\* Faulty variant: the loop neither breaks on a win nor tests for one again.
PlayIterationNoBreak(m) ==
    /\ pc = "playing"
    /\ loop = "running"
    /\ IF upper(m) = "Q"
       THEN /\ loop' = "quit"
            /\ UNCHANGED <<pc, genVars, file, gameVars, runB, otherVars>>
       ELSE IF upper(m) \in MoveKeys
       THEN /\ move_player(m)
            /\ loop' = AfterIteration(pc' = "index_error", FALSE)
       ELSE /\ loop' = AfterIteration(FALSE, FALSE)
            /\ UNCHANGED <<pc, genVars, file, gameVars, runB, otherVars>>

\* One iteration of the loop of play on the stripped input m, from the input
\* call to the win test that ends the iteration and the loop test after it.
PlayIteration(m) ==
    /\ pc = "playing"
    /\ loop = "running"
    /\ IF upper(m) = "Q"
       THEN /\ loop' = "quit"
            /\ UNCHANGED <<pc, genVars, file, gameVars, runB, otherVars>>
       ELSE IF upper(m) \in MoveKeys
       THEN /\ move_player(m)
            /\ loop' = AfterIteration(pc' = "index_error" \/ check_win_raises',
                                      check_win_condition')
       ELSE /\ loop' = AfterIteration(check_win_raises, check_win_condition)
            /\ UNCHANGED <<pc, genVars, file, gameVars, runB, otherVars>>

\* A maze is generated, written and loaded, and play runs on it.
NextPlay ==
    \/ Construct
    \/ ConstructRejected
    \/ GenerateBegin
    \/ \E i \in 1..4 : LoopPush(i)
    \/ LoopPop
    \/ PlaceExit
    \/ WriteToFile
    \/ LoadMaze
    \/ PlayBegin
    \/ \E m \in Inputs : PlayIteration(m)

SpecPlay == Init /\ [][NextPlay]_vars

\* ------------------------------------------------------- console window
Messages == {"m1", "m2"}

\* Faulty variant: the buffer is trimmed only once it has outgrown buffer_size.
AddContentTrimLate(msg) ==
    /\ run_state = "running"
    /\ wpc = "idle"
    /\ Len(added) < MaxAdds
    /\ message' = msg
    /\ added' = Append(added, msg)
    /\ IF buffer_size # BufNone /\ Len(content) > buffer_size[1]
       THEN /\ content' = Tail(content)
            /\ wpc' = "append"
       ELSE /\ wpc' = "append"
            /\ UNCHANGED content
    /\ UNCHANGED <<scroll_position, buffer_size, win_height, mpc, run_state,
                   cipherVars, mazeProgramVars>>

\* add_content(msg), the buffer test and the pop; content.pop(0) on an empty
\* list raises IndexError in the worker thread.  The worker is the only writer
\* of content, so the main thread sees nothing between the test and the pop.
AddContent(msg) ==
    /\ run_state = "running"
    /\ wpc = "idle"
    /\ Len(added) < MaxAdds
    /\ message' = msg
    /\ added' = Append(added, msg)
    /\ IF buffer_size # BufNone /\ Len(content) >= buffer_size[1]
       THEN IF content = <<>>
            THEN /\ wpc' = "index_error"
                 /\ UNCHANGED content
            ELSE /\ content' = Tail(content)
                 /\ wpc' = "append"
       ELSE /\ wpc' = "append"
            /\ UNCHANGED content
    /\ UNCHANGED <<scroll_position, buffer_size, win_height, mpc, run_state,
                   cipherVars, mazeProgramVars>>

\* add_content: self.content.append(message)
AddContentAppend ==
    /\ run_state = "running"
    /\ wpc = "append"
    /\ content' = Append(content, message)
    /\ wpc' = "adjust"
    /\ UNCHANGED <<scroll_position, buffer_size, win_height, mpc, message, added, run_state,
                   cipherVars, mazeProgramVars>>

\* add_content: __adjust_scroll_for_new_content, then the redraw.
AdjustScroll ==
    /\ run_state = "running"
    /\ wpc = "adjust"
    /\ scroll_position' = IF Len(content) > displayable_content_lines
                          THEN Len(content) - displayable_content_lines
                          ELSE scroll_position
    /\ wpc' = "idle"
    /\ UNCHANGED <<content, buffer_size, win_height, mpc, message, added, run_state,
                   cipherVars, mazeProgramVars>>

\* run: a mouse wheel up event; __scroll_content_up tests scroll_position > 0.
ScrollUp ==
    /\ run_state = "running"
    /\ mpc = "getch"
    /\ mpc' = IF scroll_position > 0 THEN "up" ELSE "getch"
    /\ UNCHANGED <<content, scroll_position, buffer_size, win_height, wpc, message, added,
                   run_state, cipherVars, mazeProgramVars>>

\* __scroll_content_up: self.scroll_position -= 1, then the redraw.
ScrollUpUpdate ==
    /\ run_state = "running"
    /\ mpc = "up"
    /\ scroll_position' = scroll_position - 1
    /\ mpc' = "getch"
    /\ UNCHANGED <<content, buffer_size, win_height, wpc, message, added, run_state,
                   cipherVars, mazeProgramVars>>

\* run: a mouse wheel down event; __scroll_content_down tests
\* scroll_position < len(content) - displayable_content_lines.
ScrollDown ==
    /\ run_state = "running"
    /\ mpc = "getch"
    /\ mpc' = IF scroll_position < Len(content) - displayable_content_lines
              THEN "down" ELSE "getch"
    /\ UNCHANGED <<content, scroll_position, buffer_size, win_height, wpc, message, added,
                   run_state, cipherVars, mazeProgramVars>>

\* __scroll_content_down: self.scroll_position += 1, then the redraw.
ScrollDownUpdate ==
    /\ run_state = "running"
    /\ mpc = "down"
    /\ scroll_position' = scroll_position + 1
    /\ mpc' = "getch"
    /\ UNCHANGED <<content, buffer_size, win_height, wpc, message, added, run_state,
                   cipherVars, mazeProgramVars>>

\* run: q or Q leaves the event loop; the daemon worker thread ends with it.
QuitKey ==
    /\ run_state = "running"
    /\ mpc = "getch"
    /\ run_state' = "ended"
    /\ UNCHANGED <<content, scroll_position, buffer_size, win_height, wpc, mpc, message, added,
                   cipherVars, mazeProgramVars>>

\* The maze program at rest.
MazeIdle ==
    /\ pc = "start"
    /\ properties = [size |-> 0]
    /\ maze = <<>>
    /\ stack = <<>>
    /\ visited = {}
    /\ carves = 0
    /\ file = <<>>
    /\ NewMaze
    /\ runB = NoRun
    /\ NoPlay

\* A console window was constructed, with any buffer_size, on a small terminal.
InitConsole ==
    /\ MazeIdle
    /\ NoCipher
    /\ \E auto \in BOOLEAN, size \in {BufNone} \cup {<<n>> : n \in 0..MaxBuffer},
          h \in 2..MaxHeight :
          ConsoleWindowInit(auto, size, h)

NextConsole ==
    \/ \E msg \in Messages : AddContent(msg)
    \/ AddContentAppend
    \/ AdjustScroll
    \/ ScrollUp
    \/ ScrollUpUpdate
    \/ ScrollDown
    \/ ScrollDownUpdate
    \/ QuitKey

SpecConsole == InitConsole /\ [][NextConsole]_vars

\* -------------------------------------------------------- caesar cipher
CipherChars == {"A", "Z", "b", "y", " ", DotlessI}

CipherTexts == UNION {[1..n -> CipherChars] : n \in 0..MaxText}

\* cipher.encrypt(text, key)
Encrypt ==
    /\ cipher_pc = "start"
    /\ encrypted' = encrypt(text, key)
    /\ cipher_pc' = "encrypted"
    /\ UNCHANGED <<text, key, decrypted, consoleVars, mazeProgramVars>>

\* cipher.decrypt(encrypted, key)
Decrypt ==
    /\ cipher_pc = "encrypted"
    /\ decrypted' = decrypt(encrypted, key)
    /\ cipher_pc' = "decrypted"
    /\ UNCHANGED <<text, key, encrypted, consoleVars, mazeProgramVars>>

\* Any short text and any key, beyond one turn of the alphabet either way.
InitCipher ==
    /\ MazeIdle
    /\ ConsoleWindowInit(FALSE, BufNone, 2)
    /\ text \in CipherTexts
    /\ key \in (0 - MaxKey)..MaxKey
    /\ encrypted = <<>>
    /\ decrypted = <<>>
    /\ cipher_pc = "start"

NextCipher == Encrypt \/ Decrypt

SpecCipher == InitCipher /\ [][NextCipher]_vars

\* ---------------------------------------------------------------- grids
Adj4(c) == {<<c[1] + 1, c[2]>>, <<c[1] - 1, c[2]>>, <<c[1], c[2] + 1>>, <<c[1], c[2] - 1>>}

\* The cells of S reachable from the cells of seen by 4-directional steps in S.
RECURSIVE ReachFrom(_, _, _)
ReachFrom(frontier, seen, S) ==
    IF frontier = {} THEN seen
    ELSE LET new == ((UNION {Adj4(c) : c \in frontier}) \cap S) \ seen
         IN  ReachFrom(new, seen \cup new, S)

Reach(c0, S) == ReachFrom({c0}, {c0}, S)

\* Generator grid: cells are <<x, y>> with maze[x][y].
GridCells(m) == {<<x, y>> \in (DOMAIN m) \X (DOMAIN m) : y \in DOMAIN m[x]}
CellsOf(m, ch) == {c \in GridCells(m) : m[c[1]][c[2]] = ch}
OpenCells(m, p) == {c \in GridCells(m) : m[c[1]][c[2]] # p.wall_char}
OnBorder(c, n) == c[1] \in {0, n - 1} \/ c[2] \in {0, n - 1}
IsSquare(m, n) == DOMAIN m = 0..(n - 1) /\ \A x \in DOMAIN m : DOMAIN m[x] = 0..(n - 1)
AdjacentPairs(S) == Cardinality({e \in S \X S : e[2] \in Adj4(e[1])}) \div 2

\* Game layout: cells are <<x, y>> with layout[y][x]; a move is accepted onto a
\* cell inside the bounds that exists and is not a wall.
Passable(lay, w, h) ==
    {c \in (0..(w - 1)) \X (0..(h - 1)) :
        CellExists(lay, c[1], c[2]) /\ NotWall(Cell(lay, c[1], c[2]))}
Winnable(lay, w, h, x, y) ==
    \E c \in Reach(<<x, y>>, Passable(lay, w, h)) :
        CellExists(lay, c[1], c[2]) /\ IsExit(Cell(lay, c[1], c[2]))

\* ------------------------------------------------------------------ claims

\* C1: the grid left by generate_maze is square with side properties.size, the
\* side is odd and within [5, 99], and the grid holds exactly one Start cell and
\* exactly one Exit cell, the Exit on the outer border.
C1_GridShape ==
    pc = "generated" =>
        /\ IsSquare(maze, properties.size)
        /\ properties.size % 2 = 1
        /\ properties.size >= 5 /\ properties.size <= 99
        /\ Cardinality(CellsOf(maze, properties.start_char)) = 1
        /\ Cardinality(CellsOf(maze, properties.end_char)) = 1
        /\ \A c \in CellsOf(maze, properties.end_char) : OnBorder(c, properties.size)

C1_Witness ==
    /\ pc = "generated"
    /\ properties.size = 7
    /\ maze[6][5] = properties.end_char

\* C2: in every generated grid every Path cell is reachable from the Start cell
\* by 4-directional steps through non-Wall cells.
C2_PathsReachable ==
    pc = "generated" =>
        /\ maze[StartCell[1]][StartCell[2]] = properties.start_char
        /\ CellsOf(maze, properties.path_char)
              \subseteq Reach(StartCell, OpenCells(maze, properties))

C2_Witness ==
    /\ pc = "generated"
    /\ properties.size = 7
    /\ Cardinality(CellsOf(maze, properties.path_char)) = 17

\* C3: at every step of carving and in the final grid the non-Wall cells form a
\* tree under 4-adjacency: connected, with one adjacent pair fewer than cells.
C3_Tree ==
    pc \in {"carving", "generated"} =>
        LET S == OpenCells(maze, properties)
        IN  /\ Reach(StartCell, S) = S
            /\ AdjacentPairs(S) = Cardinality(S) - 1

\* A carve step has just refused to close the square (1,1)-(1,3)-(3,3)-(3,1).
C3_Witness ==
    /\ pc = "carving"
    /\ stack = << <<1, 1>>, <<1, 3>>, <<3, 3>>, <<3, 1>>, <<5, 1>> >>
    /\ maze[2][1] = properties.wall_char

\* C4: every maze generated, written and loaded is solvable: the Exit is on the
\* border next to a Path cell and some sequence of accepted moves from the
\* loaded start position reaches a cell where check_win_condition is true.
C4_Solvable ==
    pc = "playing" =>
        /\ \E c \in CellsOf(maze, properties.end_char) :
              /\ OnBorder(c, properties.size)
              /\ \E b \in Adj4(c) \cap GridCells(maze) : maze[b[1]][b[2]] = properties.path_char
        /\ Winnable(layout, width, height, start_x, start_y)

FourDirections == {"W", "A", "S", "D"}

\* C5: move_player reports out-of-bounds and keeps the position when the
\* candidate is outside the bounds, else reports blocked and keeps the position
\* when the target cell is Wall, else moves to the candidate and reports success.
C5_MoveResolution ==
    [][\A direction \in FourDirections :
          move_player(direction) =>
              LET d == Delta(direction)
                  new_x == player_x + d[1]
                  new_y == player_y + d[2]
              IN  IF ~InBounds(new_x, new_y, width, height)
                  THEN result' = MsgBounds /\ player_x' = player_x /\ player_y' = player_y
                  ELSE IF CellExists(layout, new_x, new_y) /\ ~NotWall(Cell(layout, new_x, new_y))
                  THEN result' = MsgWall /\ player_x' = player_x /\ player_y' = player_y
                  ELSE result' = "None" /\ player_x' = new_x /\ player_y' = new_y]_vars

\* The rows of a maze text, header line apart, and whether they form a w x h
\* rectangle that a header, when there is one, states correctly.
HasHeader(f) == f # <<>> /\ HeaderParses(strip(f[1]))
BodyRows(f) == IF HasHeader(f) THEN Tail(f) ELSE f
Rectangular(f) ==
    LET rows == BodyRows(f)
    IN  /\ rows # <<>>
        /\ Len(rows[1]) >= 1
        /\ \A y \in 1..Len(rows) : Len(rows[y]) = Len(rows[1])
        /\ HasHeader(f) =>
              /\ int(split(strip(f[1]))[1]) = Len(rows)
              /\ int(split(strip(f[1]))[2]) = Len(rows[1])
HasStart(f) == \E y \in 1..Len(BodyRows(f)) : "S" \in Range(BodyRows(f)[y])

\* C6: in a game loaded from a rectangular maze text with a Start cell the
\* player is always inside the bounds and on a cell that is not Wall.
C6_PlayerOnOpenCell ==
    (pc \in {"playing", "index_error"} /\ Rectangular(file) /\ HasStart(file)) =>
        /\ InBounds(player_x, player_y, width, height)
        /\ CellExists(layout, player_x, player_y)
        /\ NotWall(Cell(layout, player_x, player_y))

\* C7: check_win_condition is false right after loading a maze with a Start
\* cell (which is never its Exit cell), and a move onto an Exit cell is accepted
\* and makes check_win_condition true.
C7_WinCondition ==
    [][/\ (LoadMaze /\ Rectangular(file) /\ HasStart(file)) => ~check_win_condition'
       /\ \A direction \in FourDirections :
             LET d == Delta(direction)
                 new_x == player_x + d[1]
                 new_y == player_y + d[2]
             IN  (/\ move_player(direction)
                  /\ InBounds(new_x, new_y, width, height)
                  /\ CellExists(layout, new_x, new_y)
                  /\ IsExit(Cell(layout, new_x, new_y)))
                 => (player_x' = new_x /\ player_y' = new_y /\ check_win_condition')]_vars

CarveNodes(n) == {c \in (1..(n - 2)) \X (1..(n - 2)) : c[1] % 2 = 1 /\ c[2] % 2 = 1}

\* C10: the carving loop terminates, and the stack is empty only once every
\* carve node has been visited and marked Path.
C10_Terminates ==
    /\ (pc = "carving") ~> (pc = "carving" /\ stack = <<>>)
    /\ [](pc = "carving" /\ stack = <<>> =>
             \A c \in CarveNodes(properties.size) :
                 c \in visited /\ maze[c[1]][c[2]] = properties.path_char)

C10_Witness ==
    /\ pc = "carving"
    /\ stack = <<>>
    /\ properties.size = 7
    /\ Cardinality(visited) = 9

\* The kind of cell a character stands for: under the generator's symbols, and
\* as the game reads it.
KindWritten(p, ch) ==
    CASE ch = p.wall_char -> "Wall"
      [] ch = p.start_char -> "Start"
      [] ch = p.end_char -> "Exit"
      [] OTHER -> "Path"
KindLoaded(ch) ==
    CASE ~NotWall(ch) -> "Wall"
      [] ch = "S" -> "Start"
      [] IsExit(ch) -> "Exit"
      [] OTHER -> "Path"

\* C8: the written grid, loaded, has the same width and height and the same
\* kind of cell at every (row, col), the player starting on the Start cell.
C8_RoundTrip ==
    pc = "playing" =>
        /\ width = properties.size
        /\ height = properties.size
        /\ \A c \in GridCells(maze) :
              /\ CellExists(layout, c[2], c[1])
              /\ KindLoaded(Cell(layout, c[2], c[1])) = KindWritten(properties, maze[c[1]][c[2]])
        /\ <<start_y, start_x>> \in CellsOf(maze, properties.start_char)

\* C11: a size outside [5, 100] is rejected by the constructor and every size
\* inside [5, 100] is accepted.
C11_SizeRange ==
    [][pc = "start" => (pc' = "constructed" <=> properties'.size \in 5..100)]_vars

\* Whether the rows of a maze text all have the established width (the header's,
\* or the first row's) and a header, when there is one, counts the rows.
RowsAgree(f) ==
    LET rows == BodyRows(f)
        w == IF HasHeader(f) THEN int(split(strip(f[1]))[2])
             ELSE IF rows = <<>> THEN 0 ELSE Len(rows[1])
    IN  /\ \A y \in 1..Len(rows) : Len(rows[y]) = w
        /\ HasHeader(f) => int(split(strip(f[1]))[1]) = Len(rows)

\* C12: a maze text with a row of another length than the established width, or
\* with a header that disagrees with the rows, is not loaded, and no loaded game
\* passes the bounds check of move_player and then indexes a missing cell.
C12_RaggedRejected ==
    /\ pc \in {"playing", "index_error"} => RowsAgree(file)
    /\ pc # "index_error"

\* C13: a maze text without a Start symbol is not loaded; the start position of
\* every loaded game is a Start cell of its layout.
C13_StartRequired ==
    pc \in {"playing", "index_error"} =>
        /\ HasStart(file)
        /\ CellExists(layout, start_x, start_y)
        /\ Cell(layout, start_x, start_y) = "S"

\* C14: an empty maze text is not loaded, and no loaded game has width 0 or
\* height 0.
C14_NoZeroDimension ==
    pc \in {"playing", "index_error"} =>
        /\ file # <<>>
        /\ width >= 1
        /\ height >= 1

\* C15 as stated: the finished grid has as many Path cells as carve steps.
C15_PathsEqualCarves ==
    pc = "generated" => Cardinality(CellsOf(maze, properties.path_char)) = carves

\* C15 as amended: the finished grid has two Path cells per carve step (the
\* wall cell between the nodes and the node pushed) and one for the first node.
C15_PathsTwicePlusOne ==
    pc = "generated" => Cardinality(CellsOf(maze, properties.path_char)) = 2 * carves + 1

C15_Witness ==
    /\ pc = "generated"
    /\ properties.size = 7
    /\ carves = 8

\* The last n elements of s.
LastN(s, n) == SubSeq(s, Len(s) - n + 1, Len(s))

\* C16: with an integer buffer_size n >= 1, content never holds more than n
\* messages, and after k add_content calls it holds the min(k, n) messages added
\* last, in the order they were added.
C16_BufferKeepsNewest ==
    (buffer_size # BufNone /\ buffer_size[1] >= 1) =>
        /\ Len(content) <= buffer_size[1]
        /\ wpc = "idle" =>
              content = LastN(added, Min(Len(added), buffer_size[1]))

\* Four messages went into a buffer of two: the first two were evicted.
C16_Witness ==
    /\ wpc = "idle"
    /\ buffer_size = <<2>>
    /\ added = <<"m1", "m1", "m2", "m1">>
    /\ content = <<"m2", "m1">>

\* C17: decrypt(encrypt(text, key), key) is text, for every text and every key.
C17_RoundTrip ==
    cipher_pc = "decrypted" => decrypted = text

\* C19: play invokes move_player only while the game is not won, ends the loop
\* in the iteration whose move puts the player on the Exit or whose input is Q,
\* and leaves the player where it is on every input other than W, A, S, D.
C19_NoMoveAfterWin ==
    [][/\ (pc = "playing" /\ <<player_x, player_y, result>>' # <<player_x, player_y, result>>) =>
              (loop = "running" /\ ~check_win_condition)
       /\ \A m \in Inputs :
             PlayIteration(m) =>
                 /\ ~check_win_condition
                 /\ check_win_condition' => loop' = "won"
                 /\ loop' = "running" => ~check_win_condition'
                 /\ upper(m) = "Q" => loop' = "quit"
                 /\ upper(m) \notin MoveKeys =>
                       (player_x' = player_x /\ player_y' = player_y)]_vars

\* A move made in play put the player on the Exit and ended the loop.
C19_Witness ==
    /\ loop = "won"
    /\ result = "None"
    /\ check_win_condition
    /\ <<player_x, player_y>> # <<start_x, start_y>>
    /\ properties.size = 7

\* C18: move_player leaves layout, width, height, start_x and start_y as they
\* are, and a call that reports out-of-bounds or blocked leaves the player's
\* position as it is too.
C18_MoveFrame ==
    [][\A direction \in Inputs :
          move_player(direction) =>
              /\ mazeVars' = mazeVars
              /\ result' \in {MsgWall, MsgBounds} =>
                    (player_x' = player_x /\ player_y' = player_y)]_vars

\* A blocked move was reported after the player had left the start.
C18_Witness ==
    /\ pc = "playing"
    /\ result = MsgWall
    /\ <<player_x, player_y>> # <<start_x, start_y>>
    /\ Cell(layout, player_x, player_y) = " "

\* C20 as stated: in the written file the Start cell is in column 0 of an
\* interior row, and the first carve node is next to it.
C20_StartOnLeftBorder ==
    pc = "written" =>
        /\ \E y \in 2..(Len(file) - 1) : file[y][1] = properties.start_char
        /\ FirstNode \in Adj4(StartCell)

\* C20 as amended: in the written file the Start cell is in row 0 (the top
\* border) at the fixed interior column 1, and the first carve node pushed is
\* the cell next to it inside the grid, (row 1, column 1).
C20_StartOnTopBorder ==
    /\ pc = "written" =>
          /\ file[1][2] = properties.start_char
          /\ \A y \in 1..Len(file) : \A x \in 1..Len(file[y]) :
                file[y][x] = properties.start_char => (y = 1 /\ x = 2)
    /\ (pc = "carving" /\ stack # <<>>) =>
          /\ stack[1] = <<1, 1>>
          /\ stack[1] \in Adj4(StartCell)

C20_Witness ==
    /\ pc = "written"
    /\ properties.size = 7
    /\ file[1][2] = properties.start_char
    /\ file[2][2] = properties.path_char

\* C21: the Exit is on the bottom border row directly below the rightmost Path
\* cell of the row above it, and that row always has a Path cell, so every
\* finished grid has an Exit.
C21_ExitBelowRightmostPath ==
    pc = "generated" =>
        LET n == properties.size
        IN  \E x \in 1..(n - 2) :
               /\ maze[n - 1][x] = properties.end_char
               /\ maze[n - 2][x] = properties.path_char
               /\ \A z \in (x + 1)..(n - 2) : maze[n - 2][z] # properties.path_char
               /\ CellsOf(maze, properties.end_char) = {<<n - 1, x>>}

\* The row above the bottom border has a second Path cell left of the one the
\* Exit is below, so the direction of the scan decided the Exit's column.
C21_Witness ==
    /\ pc = "generated"
    /\ properties.size = 7
    /\ maze[6][5] = properties.end_char
    /\ maze[5][5] = properties.path_char
    /\ maze[5][4] = properties.path_char

\* C22 as stated: the normalised size is the nearest odd value at or below the
\* requested size within [5, 99], so never larger than a request of at least 5.
C22_RoundsDown ==
    [][(pc = "constructed" /\ pc' = "normalized") =>
          LET r == properties.size
              n == properties'.size
          IN  r >= 5 =>
                 /\ n <= r
                 /\ n = Min(99, IF r % 2 = 0 THEN r - 1 ELSE r)]_vars

\* C22 as amended: the normalised size is odd and within [5, 99]; an odd
\* request is kept, an even request goes up to the next odd value, except 100,
\* which is cut to 99; the side is never more than one larger than the request.
C22_RoundsUp ==
    [][(pc = "constructed" /\ pc' = "normalized") =>
          LET r == properties.size
              n == properties'.size
          IN  /\ n % 2 = 1
              /\ n >= 5 /\ n <= 99
              /\ r % 2 = 1 => n = r
              /\ (r % 2 = 0 /\ r < 99) => n = r + 1
              /\ r = 100 => n = 99
              /\ n <= r + 1]_vars

C22_Witness ==
    /\ pc = "normalized"
    /\ properties.size = 99

\* C23: under every interleaving of the worker's add_content steps with the
\* main loop's scroll steps, scroll_position stays within
\* 0 .. max(0, len(content) - displayable_content_lines).
C23_ScrollInRange ==
    /\ scroll_position >= 0
    /\ scroll_position <= Max(0, Len(content) - displayable_content_lines)

\* C24: carving never touches the outer border: at every step of generate_maze
\* every Path cell has its row and its column in [1, size-2], and in the
\* finished grid every border cell is Wall but the one Start and the one Exit.
C24_BorderIntact ==
    /\ pc \in {"carving", "generated"} =>
          \A c \in CellsOf(maze, properties.path_char) :
             /\ c[1] \in 1..(properties.size - 2)
             /\ c[2] \in 1..(properties.size - 2)
    /\ pc = "generated" =>
          LET n == properties.size
              border == {c \in GridCells(maze) : OnBorder(c, n)}
              open == {c \in border : maze[c[1]][c[2]] # properties.wall_char}
          IN  /\ Cardinality(open) = 2
              /\ \E st \in open, ex \in open :
                    /\ maze[st[1]][st[2]] = properties.start_char
                    /\ maze[ex[1]][ex[2]] = properties.end_char

\* The carving went along the right and the bottom border and left both whole.
C24_Witness ==
    /\ pc = "generated"
    /\ properties.size = 7
    /\ \A k \in 1..5 : maze[k][5] = properties.path_char /\ maze[5][k] = properties.path_char
    /\ \A k \in 0..5 : maze[k][6] = properties.wall_char

====
